---- MODULE Spec2Model ----
(***************************************************************************)
(* Model of the MountainClimber storage engines:                           *)
(*   - DoubleKeyTable     (src/double_key_table.py)                        *)
(*   - InfiniteHashTable  (src/infinite_hash_table.py)                     *)
(* Keys are strings, modelled as sequences of character codes.  Arrays are *)
(* functions over 0..n-1, as ArrayR is indexed.  An operation that raises  *)
(* keeps every mutation it made before the raise; the exception is the     *)
(* field exc of the state record the operators thread through.             *)
(***************************************************************************)
EXTENDS Integers, Sequences, FiniteSets, Bags, TLC

VARIABLES
    table,          \* DoubleKeyTable.table : outer ArrayR of (key1, LinearProbeTable)
    size_index,     \* DoubleKeyTable.size_index
    count,          \* DoubleKeyTable.count
    sizes,          \* self.TABLE_SIZES of the DoubleKeyTable
    internal_sizes, \* LinearProbeTable.TABLE_SIZES (class attribute)
    last,           \* the last DoubleKeyTable call: operation, arguments, exception
    steps,          \* number of calls made so far
    root,           \* the root InfiniteHashTable
    ilast,          \* the last InfiniteHashTable call
    isteps,         \* number of InfiniteHashTable calls made so far
    trail,          \* Trail.store of the trail collect_all_mountains is called on
    collected,      \* what collect_all_mountains returned or raised
    other           \* a second DoubleKeyTable (its fields), None until constructed

dktVars == <<table, size_index, count, sizes, internal_sizes, last, steps>>
ihtVars == <<root, ilast, isteps>>
trailVars == <<trail, collected>>
vars == <<table, size_index, count, sizes, internal_sizes, last, steps, root, ilast, isteps,
          trail, collected, other>>

----------------------------------------------------------------------------
(* Bounds of the model *)

\* calls made on a DoubleKeyTable in one behaviour
MaxOps == 5

\* calls made on an InfiniteHashTable in one behaviour
MaxIhtOps == 5

\* nesting depth at which the interpreter gives up a recursion (RecursionError)
RecursionLimit == 6

\* TrailSeries and TrailSplit objects in one trail
MaxTrailSize == 3

----------------------------------------------------------------------------
(* Keys and values *)

\* "A" and "F" have the same code modulo 5; "B" does not
KeyA == <<65>>
KeyB == <<66>>
KeyF == <<70>>

K1 == {KeyA, KeyF, KeyB}
K2 == {KeyA, KeyF, KeyB}
Values == {1, 2}

\* the pairs the calls are made on: three secondary keys under "A" (two of them
\* colliding), and three primary keys (two of them colliding)
Pairs == {p \in K1 \X K2 : p[1] = KeyA \/ p[2] = KeyA}

None == [kind |-> "none"]

----------------------------------------------------------------------------
(* DoubleKeyTable *)

TABLE_SIZES == <<5, 13, 29, 53, 97, 193, 389, 769, 1543, 3079, 6151, 12289, 24593,
                 49157, 98317, 196613, 393241, 786433, 1572869>>

HASH_BASE == 31

HASH_SEED == 31415

EmptyArray(n) == [i \in 0..(n - 1) |-> None]

\* LinearProbeTable(): size_index 0, an empty array of the first size, count 0
NewLinearProbeTable(lptSizes) ==
    [array |-> EmptyArray(lptSizes[1]), size_index |-> 0, count |-> 0]

\* len(ArrayR)
ArrLen(arr) == Cardinality(DOMAIN arr)

RECURSIVE HashFrom(_, _, _, _, _)
HashFrom(key, i, value, a, n) ==
    IF i > Len(key) THEN value
    ELSE HashFrom(key, i + 1, (key[i] + a * value) % n, (a * HASH_BASE) % (n - 1), n)

\* hash1 / hash2: the rolling hash over the key's characters, modulo the table size
hash1(key, n) == HashFrom(key, 1, 0, HASH_SEED, n)
hash2(key, n) == HashFrom(key, 1, 0, HASH_SEED, n)

\* a probe's outcome: the exception raised ("none" when it returns) and the indices
ProbeReturn(i1, i2) == [exc |-> "none", int1 |-> i1, int2 |-> i2]
ProbeRaise(e) == [exc |-> e, int1 |-> 0, int2 |-> 0]

\* the inner for loop of _linear_probe over the sub-table found at the outer slot;
\* exc = "continue" when the loop ends without returning or raising
RECURSIVE ProbeInner(_, _, _, _, _)
ProbeInner(array, key2, is_insert, pos2, n) ==
    IF n = 0 THEN ProbeRaise("continue")
    ELSE IF array[pos2].kind = "none"
         THEN IF is_insert THEN ProbeReturn(0, pos2) ELSE ProbeRaise("KeyError")
         ELSE IF array[pos2].key = key2
              THEN ProbeReturn(0, pos2)
              ELSE ProbeInner(array, key2, is_insert, (pos2 + 1) % ArrLen(array), n - 1)

\* the outer for loop of _linear_probe
RECURSIVE ProbeOuter(_, _, _, _, _, _)
ProbeOuter(t, key1, key2, is_insert, pos1, n) ==
    IF n = 0
    THEN ProbeRaise(IF is_insert THEN "FullError" ELSE "KeyError")
    ELSE LET slot == t.table[pos1] IN
         IF slot.kind = "none"
         THEN IF is_insert
              THEN ProbeReturn(pos1, hash2(key2, t.internal_sizes[1]))
              ELSE ProbeRaise("KeyError")
         ELSE IF slot.key = key1
              THEN LET m == ArrLen(slot.sub.array)
                       r == ProbeInner(slot.sub.array, key2, is_insert, hash2(key2, m), m)
                   IN  IF r.exc = "continue"
                       THEN ProbeOuter(t, key1, key2, is_insert, pos1, n - 1)
                       ELSE [r EXCEPT !.int1 = pos1]
              ELSE ProbeOuter(t, key1, key2, is_insert, (pos1 + 1) % ArrLen(t.table), n - 1)

_linear_probe(t, key1, key2, is_insert) ==
    ProbeOuter(t, key1, key2, is_insert, hash1(key1, ArrLen(t.table)), ArrLen(t.table))

\* __getitem__: the value, or the KeyError of the probe
Get(t, key1, key2) ==
    LET r == _linear_probe(t, key1, key2, FALSE) IN
    IF r.exc # "none" THEN [exc |-> r.exc, value |-> 0]
    ELSE [exc |-> "none", value |-> t.table[r.int1].sub.array[r.int2].value]

\* __contains__
Contains(t, key1, key2) == Get(t, key1, key2).exc # "KeyError"

\* __len__
DktLen(t) == t.count

\* LinearProbeTable.keys() / values(): the occupied slots in slot order
RECURSIVE SlotsFrom(_, _)
SlotsFrom(array, i) ==
    IF i >= ArrLen(array) THEN <<>>
    ELSE IF array[i].kind = "none" THEN SlotsFrom(array, i + 1)
         ELSE <<array[i]>> \o SlotsFrom(array, i + 1)

LptKeys(lpt) == LET s == SlotsFrom(lpt.array, 0) IN [i \in 1..Len(s) |-> s[i].key]
LptValues(lpt) == LET s == SlotsFrom(lpt.array, 0) IN [i \in 1..Len(s) |-> s[i].value]

\* keys(None): the primary keys in outer slot order
Keys(t) == LET s == SlotsFrom(t.table, 0) IN [i \in 1..Len(s) |-> s[i].key]

\* keys(key): the secondary keys of the first outer slot holding key
RECURSIVE KeysOfFrom(_, _, _)
KeysOfFrom(t, key, x) ==
    IF x >= ArrLen(t.table) THEN <<>>
    ELSE IF t.table[x].kind # "none" /\ t.table[x].key = key
         THEN LptKeys(t.table[x].sub)
         ELSE KeysOfFrom(t, key, x + 1)

KeysOf(t, key) == KeysOfFrom(t, key, 0)

\* values(key) and iter_values(key): the slot at hash1(key) is read without probing;
\* subscripting None raises TypeError
ValuesOf(t, key) ==
    LET pos1 == hash1(key, ArrLen(t.table)) IN
    IF t.table[pos1].kind = "none"
    THEN [exc |-> "TypeError", list |-> <<>>]
    ELSE [exc |-> "none", list |-> LptValues(t.table[pos1].sub)]

IterValuesOf(t, key) ==
    LET pos1 == hash1(key, ArrLen(t.table)) IN
    IF t.table[pos1].kind = "none"
    THEN [exc |-> "TypeError", list |-> <<>>]
    ELSE LET s == SlotsFrom(t.table[pos1].sub.array, 0)
         IN  [exc |-> "none", list |-> [i \in 1..Len(s) |-> s[i].value]]

Item(k, v) == [kind |-> "item", key |-> k, value |-> v]
SubSlot(k, lpt) == [kind |-> "sub", key |-> k, sub |-> lpt]

\* len(linear_probe_table) > linear_probe_table.table_size / 2
OverHalf(lpt) == 2 * lpt.count > ArrLen(lpt.array)

RECURSIVE SetItem(_, _, _, _)
RECURSIVE ReinsertOuter(_, _, _, _)
RECURSIVE ReinsertInner(_, _, _, _)
RECURSIVE GrowSubTables(_, _, _)
RECURSIVE _rehash(_)

\* _rehash, lines 282-288: reinsert every pair of old_table, outer slot x from inner
\* slot y on, through __setitem__; an exception ends the loops
ReinsertOuter(t, old_table, x, y) ==
    IF t.exc # "none" \/ x >= ArrLen(old_table) THEN t
    ELSE IF old_table[x].kind = "none" THEN ReinsertOuter(t, old_table, x + 1, 0)
    ELSE IF y >= ArrLen(old_table[x].sub.array) THEN ReinsertOuter(t, old_table, x + 1, 0)
    ELSE LET item == old_table[x].sub.array[y] IN
         IF item.kind = "none" THEN ReinsertOuter(t, old_table, x, y + 1)
         ELSE ReinsertOuter(SetItem(t, old_table[x].key, item.key, item.value),
                            old_table, x, y + 1)

\* _rehash, lines 301-304: reinsert the items of old_internal_table under key1
ReinsertInner(t, key1, old_internal_table, y) ==
    IF t.exc # "none" \/ y >= ArrLen(old_internal_table) THEN t
    ELSE IF old_internal_table[y].kind = "none"
         THEN ReinsertInner(t, key1, old_internal_table, y + 1)
         ELSE ReinsertInner(SetItem(t, key1, old_internal_table[y].key,
                                    old_internal_table[y].value),
                            key1, old_internal_table, y + 1)

\* _rehash, lines 289-304: grow every sub-table above half load, outer slots x..n-1;
\* exc = "return" is the return of line 298
GrowSubTables(t, x, n) ==
    IF t.exc # "none" \/ x >= n THEN t
    ELSE IF x >= ArrLen(t.table) THEN [t EXCEPT !.exc = "IndexError"]
    ELSE IF t.table[x].kind = "none" THEN GrowSubTables(t, x + 1, n)
    ELSE LET key1 == t.table[x].key
             lpt == t.table[x].sub
         IN  IF ~OverHalf(lpt) THEN GrowSubTables(t, x + 1, n)
             ELSE LET idx == lpt.size_index + 1
                      bumped == [t EXCEPT !.table[x].sub.size_index = idx]
                  IN  IF idx = Len(t.internal_sizes)
                      THEN [bumped EXCEPT !.exc = "return"]
                      ELSE IF idx > Len(t.internal_sizes)
                      THEN [bumped EXCEPT !.exc = "IndexError"]
                      ELSE LET fresh == [bumped EXCEPT
                                           !.table[x].sub.array =
                                               EmptyArray(t.internal_sizes[idx + 1]),
                                           !.table[x].sub.count = 0]
                           IN  GrowSubTables(ReinsertInner(fresh, key1, lpt.array, 0),
                                             x + 1, n)

\* _rehash: the outer growth (lines 274-288), then the sub-table pass
_rehash(t) ==
    LET outer ==
            IF 2 * t.count > ArrLen(t.table)
            THEN LET idx == t.size_index + 1
                     bumped == [t EXCEPT !.size_index = idx]
                 IN  IF idx = Len(t.sizes) THEN [bumped EXCEPT !.exc = "return"]
                     ELSE IF idx > Len(t.sizes) THEN [bumped EXCEPT !.exc = "IndexError"]
                     ELSE ReinsertOuter([bumped EXCEPT
                                           !.table = EmptyArray(t.sizes[idx + 1]),
                                           !.count = 0],
                                        t.table, 0, 0)
            ELSE t
        done == GrowSubTables(outer, 0, ArrLen(outer.table))
    IN  IF done.exc = "return" THEN [done EXCEPT !.exc = "none"] ELSE done

\* __setitem__, lines 226-235: the pair written at the probed indices
Placed(t, int1, int2, key1, key2, data) ==
    IF t.table[int1].kind = "none"
    THEN LET new == NewLinearProbeTable(t.internal_sizes) IN
         [t EXCEPT !.count = @ + 1,
                   !.table[int1] =
                       SubSlot(key1, [new EXCEPT !.array[int2] = Item(key2, data),
                                                 !.count = @ + 1])]
    ELSE [t EXCEPT !.table[int1].sub.array[int2] = Item(key2, data),
                   !.table[int1].sub.count = @ + 1]

\* a variant of the condition that looks at the outer load only
NeedsRehashOuterOnly(t, int1) == 2 * t.count > ArrLen(t.table)

\* __setitem__, line 237: the condition under which _rehash is called
NeedsRehash(t, int1) ==
    OverHalf(t.table[int1].sub) \/ 2 * t.count > ArrLen(t.table)

\* __setitem__
SetItem(t, key1, key2, data) ==
    LET r == _linear_probe(t, key1, key2, TRUE) IN
    IF r.exc # "none" THEN [t EXCEPT !.exc = r.exc]
    ELSE LET placed == Placed(t, r.int1, r.int2, key1, key2, data) IN
         IF NeedsRehash(placed, r.int1) THEN _rehash(placed) ELSE placed

\* __delitem__, lines 253-261: the outer cluster repair from slot int1 on.  The
\* while loop is followed for at most left iterations; a loop that has not ended by
\* then is reported as "Diverges".
RECURSIVE RepairLoop(_, _, _)
RepairLoop(t, int1, left) ==
    IF t.exc # "none" \/ t.table[int1].kind = "none" THEN t
    ELSE IF left = 0 THEN [t EXCEPT !.exc = "Diverges"]
    ELSE LET moved == t.table[int1]
             cleared == [t EXCEPT !.table[int1] = None]
             r == _linear_probe(cleared, moved.key, moved.key, TRUE)
         IN  IF r.exc # "none" THEN [cleared EXCEPT !.exc = r.exc]
             ELSE RepairLoop([cleared EXCEPT !.table[r.int1] = moved],
                             (int1 + 1) % ArrLen(t.table), left - 1)

\* every iteration that moves an entry brings it nearer to its home slot and an
\* entry at its home slot is passed once per lap, so a loop that ends does so
\* within ArrLen * ArrLen iterations
ClusterRepair(t, int1) == RepairLoop(t, int1, ArrLen(t.table) * ArrLen(t.table))

\* a variant of __delitem__ that starts the cluster repair without clearing the slot
DelItemKeepsSlot(t, key1, key2) ==
    LET r == _linear_probe(t, key1, key2, FALSE) IN
    IF r.exc # "none" THEN [t EXCEPT !.exc = r.exc]
    ELSE IF Len(LptKeys(t.table[r.int1].sub)) = 1
         THEN ClusterRepair([t EXCEPT !.count = @ - 1],
                            (r.int1 + 1) % ArrLen(t.table))
         ELSE [t EXCEPT !.table[r.int1].sub.array[r.int2] = None,
                        !.table[r.int1].sub.count = @ - 1]

\* a variant of __delitem__ that takes the pair off the count before looking it up
DelItemCountsFirst(t, key1, key2) ==
    LET r == _linear_probe(t, key1, key2, FALSE) IN
    IF r.exc # "none" THEN [t EXCEPT !.exc = r.exc, !.count = @ - 1]
    ELSE IF Len(LptKeys(t.table[r.int1].sub)) = 1
         THEN ClusterRepair([t EXCEPT !.table[r.int1] = None, !.count = @ - 1],
                            (r.int1 + 1) % ArrLen(t.table))
         ELSE [t EXCEPT !.table[r.int1].sub.array[r.int2] = None,
                        !.table[r.int1].sub.count = @ - 1]

\* a variant of __delitem__ that takes one off the outer count for every pair deleted
DelItemOuterCount(t, key1, key2) ==
    LET r == _linear_probe(t, key1, key2, FALSE) IN
    IF r.exc # "none" THEN [t EXCEPT !.exc = r.exc]
    ELSE IF Len(LptKeys(t.table[r.int1].sub)) = 1
         THEN ClusterRepair([t EXCEPT !.table[r.int1] = None, !.count = @ - 1],
                            (r.int1 + 1) % ArrLen(t.table))
         ELSE [t EXCEPT !.table[r.int1].sub.array[r.int2] = None,
                        !.table[r.int1].sub.count = @ - 1,
                        !.count = @ - 1]

\* a variant of __delitem__ that empties the slot of the sub-table whatever the
\* sub-table holds
DelItemKeepsSubTable(t, key1, key2) ==
    LET r == _linear_probe(t, key1, key2, FALSE) IN
    IF r.exc # "none" THEN [t EXCEPT !.exc = r.exc]
    ELSE [t EXCEPT !.table[r.int1].sub.array[r.int2] = None,
                   !.table[r.int1].sub.count = @ - 1]

\* __delitem__
DelItem(t, key1, key2) ==
    LET r == _linear_probe(t, key1, key2, FALSE) IN
    IF r.exc # "none" THEN [t EXCEPT !.exc = r.exc]
    ELSE IF Len(LptKeys(t.table[r.int1].sub)) = 1
         THEN ClusterRepair([t EXCEPT !.table[r.int1] = None, !.count = @ - 1],
                            (r.int1 + 1) % ArrLen(t.table))
         ELSE [t EXCEPT !.table[r.int1].sub.array[r.int2] = None,
                        !.table[r.int1].sub.count = @ - 1]

----------------------------------------------------------------------------
(* The DoubleKeyTable as a state machine: one action per call *)

\* the table as the record the operators work on
Cur == [table |-> table, size_index |-> size_index, count |-> count,
        sizes |-> sizes, internal_sizes |-> internal_sizes, exc |-> "none"]

NoCall == [op |-> "init", key1 |-> <<>>, key2 |-> <<>>, value |-> 0, exc |-> "none"]

\* __init__(sizes, internal_sizes), each argument a sequence (None: the built-in one)
InitDkt(sizesArg, internalSizesArg) ==
    /\ sizes = sizesArg
    /\ internal_sizes = internalSizesArg
    /\ size_index = 0
    /\ table = EmptyArray(sizesArg[1])
    /\ count = 0
    /\ last = NoCall
    /\ steps = 0
    /\ other = None

Store(t) ==
    /\ table' = t.table
    /\ size_index' = t.size_index
    /\ count' = t.count
    /\ UNCHANGED <<sizes, internal_sizes>>

Set(key1, key2, data) ==
    /\ LET t == SetItem(Cur, key1, key2, data) IN
       /\ Store(t)
       /\ last' = [op |-> "set", key1 |-> key1, key2 |-> key2, value |-> data,
                   exc |-> t.exc]
    /\ steps' = steps + 1
    /\ UNCHANGED <<ihtVars, trailVars, other>>

Delete(key1, key2) ==
    /\ LET t == DelItem(Cur, key1, key2) IN
       /\ Store(t)
       /\ last' = [op |-> "delete", key1 |-> key1, key2 |-> key2, value |-> 0,
                   exc |-> t.exc]
    /\ steps' = steps + 1
    /\ UNCHANGED <<ihtVars, trailVars, other>>

\* __getitem__ and __contains__ assign nothing: the table is left as it is
GetItem(key1, key2) ==
    /\ LET r == Get(Cur, key1, key2) IN
       last' = [op |-> "get", key1 |-> key1, key2 |-> key2, value |-> r.value,
                exc |-> r.exc]
    /\ steps' = steps + 1
    /\ UNCHANGED <<table, size_index, count, sizes, internal_sizes>>
    /\ UNCHANGED <<ihtVars, trailVars, other>>

ContainsItem(key1, key2) ==
    /\ last' = [op |-> "contains", key1 |-> key1, key2 |-> key2,
                value |-> Contains(Cur, key1, key2), exc |-> "none"]
    /\ steps' = steps + 1
    /\ UNCHANGED <<table, size_index, count, sizes, internal_sizes>>
    /\ UNCHANGED <<ihtVars, trailVars, other>>

\* no InfiniteHashTable call and no Trail call is made in the DoubleKeyTable
\* behaviours
NotCollected == [exc |-> "pending", list |-> <<>>]
TrailIdle ==
    /\ trail = None
    /\ collected = NotCollected

IhtIdle ==
    /\ root = None
    /\ ilast = None
    /\ isteps = 0
    /\ TrailIdle

\* a call of __setitem__ / __delitem__ on one of the pairs
SetCall == steps < MaxOps /\ \E p \in Pairs, data \in Values : Set(p[1], p[2], data)
DeleteCall == steps < MaxOps /\ \E p \in Pairs : Delete(p[1], p[2])

\* a table built with the built-in capacity sequences
Init == InitDkt(TABLE_SIZES, TABLE_SIZES) /\ IhtIdle
Next == SetCall \/ DeleteCall
Spec == Init /\ [][Next]_vars

\* the calls of Spec together with the lookups __getitem__ and __contains__
GetCall == steps < MaxOps /\ \E p \in Pairs : GetItem(p[1], p[2])
ContainsCall == steps < MaxOps /\ \E p \in Pairs : ContainsItem(p[1], p[2])
NextLookup == SetCall \/ DeleteCall \/ GetCall \/ ContainsCall
SpecLookup == Init /\ [][NextLookup]_vars

\* a table built with sizes = [3], which the second set exhausts, and calls on four
\* primary keys, three of them with the same home slot, so that the outer array
\* fills up
KeyD == <<68>>
KeyG == <<71>>
PairsFull == {<<k, KeyA>> : k \in {KeyA, KeyD, KeyG, KeyB}}
InitFull == InitDkt(<<3>>, TABLE_SIZES) /\ IhtIdle
SetFullCall == steps < MaxOps /\ \E p \in PairsFull, data \in Values : Set(p[1], p[2], data)
DeleteFullCall == steps < MaxOps /\ \E p \in PairsFull : Delete(p[1], p[2])
NextFull == SetFullCall \/ DeleteFullCall
SpecFull == InitFull /\ [][NextFull]_vars

\* a table built with one or both capacity sequences overridden by the one-element
\* sequence [5], so that the first growth exhausts it
InitCapped ==
    /\ \E s \in {TABLE_SIZES, <<5>>}, i \in {TABLE_SIZES, <<5>>} :
           /\ <<s, i>> # <<TABLE_SIZES, TABLE_SIZES>>
           /\ InitDkt(s, i)
    /\ IhtIdle
SpecCapped == InitCapped /\ [][Next]_vars

----------------------------------------------------------------------------
(* Observations of a DoubleKeyTable used by the properties *)

AllPairs == K1 \X K2

\* the (primary, secondary) pairs held in the arrays of t
StoredPairs(t) ==
    UNION { { <<t.table[x].key, t.table[x].sub.array[y].key>> :
                y \in {y \in DOMAIN t.table[x].sub.array :
                           t.table[x].sub.array[y].kind # "none"} } :
            x \in {x \in DOMAIN t.table : t.table[x].kind # "none"} }

\* the outer slots holding primary key key
SlotsOf(t, key) ==
    {x \in DOMAIN t.table : t.table[x].kind # "none" /\ t.table[x].key = key}

\* a sequence as the bag of its elements
RECURSIVE BagOfSeq(_)
BagOfSeq(s) == IF s = <<>> THEN EmptyBag ELSE SetToBag({s[1]}) (+) BagOfSeq(Tail(s))

\* whether set(key1, key2, data) on t calls _rehash
SetTriggersRehash(t, key1, key2, data) ==
    LET r == _linear_probe(t, key1, key2, TRUE) IN
    /\ r.exc = "none"
    /\ NeedsRehash(Placed(t, r.int1, r.int2, key1, key2, data), r.int1)

\* whether the outer capacity sequence of t is exhausted
OuterExhausted(t) == t.size_index >= Len(t.sizes)

\* the primary keys of t whose sub-table has exhausted its capacity sequence
SubExhausted(t) ==
    {k \in K1 : \E x \in SlotsOf(t, k) :
                    t.table[x].sub.size_index >= Len(t.internal_sizes)}

\* the capacity of the sub-table of primary key k (no element when k is absent)
SubCapacity(t, k) == {ArrLen(t.table[x].sub.array) : x \in SlotsOf(t, k)}

----------------------------------------------------------------------------
(* Properties of the DoubleKeyTable *)

\* C1: deletion completeness.  After delete((p,s)) of a stored pair, contains((p,s))
\* is False and get((p,s)) raises KeyError, and every other pair that get returned
\* before the delete is still returned with the same value.
C1_DeletionCompleteness ==
    [][(last'.op = "delete" /\ Get(Cur, last'.key1, last'.key2).exc = "none") =>
          /\ last'.exc = "none"
          /\ ~Contains(Cur', last'.key1, last'.key2)
          /\ Get(Cur', last'.key1, last'.key2).exc = "KeyError"
          /\ \A p \in AllPairs :
                 (p # <<last'.key1, last'.key2>> /\ Get(Cur, p[1], p[2]).exc = "none")
                     => Get(Cur', p[1], p[2]) = Get(Cur, p[1], p[2])]_vars

\* C2: round trip.  Immediately after set((p,s), v) returns, get((p,s)) returns v.
C2_RoundTrip ==
    (last.op = "set" /\ last.exc = "none") =>
        Get(Cur, last.key1, last.key2) = [exc |-> "none", value |-> last.value]

\* C3: count invariant.  len(table) equals the number of distinct (primary,
\* secondary) pairs stored across all sub-tables.
C3_CountIsNumberOfPairs == DktLen(Cur) = Cardinality(StoredPairs(Cur))

\* C4: filtered values.  For every primary key p present in the table, values(p) and
\* iter_values(p) return exactly the values stored under p, one per secondary key of
\* p: the values of p's own sub-table.
C4_FilteredValues ==
    \A p \in K1 : \A x \in SlotsOf(Cur, p) :
        /\ ValuesOf(Cur, p).exc = "none"
        /\ IterValuesOf(Cur, p).exc = "none"
        /\ BagOfSeq(ValuesOf(Cur, p).list) = BagOfSeq(LptValues(table[x].sub))
        /\ BagOfSeq(IterValuesOf(Cur, p).list) = BagOfSeq(LptValues(table[x].sub))

\* C5: growth ceiling.  Once the outer capacity sequence or a sub-table's capacity
\* sequence is exhausted, a later set leaves that capacity unchanged and returns
\* without raising; the only error a set raises is FullError, and no stored pair is
\* lost.
C5_GrowthCeiling ==
    [][(last'.op = "set" /\ (OuterExhausted(Cur) \/ SubExhausted(Cur) # {})) =>
          /\ last'.exc \in {"none", "FullError"}
          /\ (OuterExhausted(Cur) => ArrLen(table') = ArrLen(table))
          /\ \A k \in SubExhausted(Cur) :
                 SubCapacity(Cur', k) = SubCapacity(Cur, k)
          /\ \A p \in AllPairs :
                 (p # <<last'.key1, last'.key2>> /\ Get(Cur, p[1], p[2]).exc = "none")
                     => Get(Cur', p[1], p[2]) = Get(Cur, p[1], p[2])]_vars

\* C6: resize transparency.  A set that triggers _rehash changes the observable
\* pair-to-value mapping only by the pair being set.
C6_ResizeTransparency ==
    [][(last'.op = "set"
           /\ SetTriggersRehash(Cur, last'.key1, last'.key2, last'.value)) =>
          \A p \in AllPairs :
              p # <<last'.key1, last'.key2>>
                  => Get(Cur', p[1], p[2]) = Get(Cur, p[1], p[2])]_vars


----------------------------------------------------------------------------
(* InfiniteHashTable *)

TABLE_SIZE == 27

\* keys of the InfiniteHashTable calls: "a", "ab", "abc", "abd" and "{", whose
\* code 123 equals the code 97 of "a" modulo 26
IKeyA == <<97>>
IKeyAB == <<97, 98>>
IKeyABC == <<97, 98, 99>>
IKeyABD == <<97, 98, 100>>
IKeyBrace == <<123>>

IKeys == {IKeyA, IKeyAB, IKeyABC, IKeyABD, IKeyBrace}

Leaf(k, v) == [kind |-> "leaf", key |-> k, value |-> v]
Child(k, node) == [kind |-> "table", key |-> k, table |-> node]

\* InfiniteHashTable(level)
NewNode(level) == [level |-> level, array |-> EmptyArray(TABLE_SIZE), count |-> 0]

\* hash
IhtHash(node, key) ==
    IF node.level < Len(key) THEN key[node.level + 1] % (TABLE_SIZE - 1)
    ELSE TABLE_SIZE - 1

\* __getitem__: a leaf's value is returned whatever the leaf's key
RECURSIVE IhtGet(_, _)
IhtGet(node, key) ==
    LET slot == node.array[IhtHash(node, key)] IN
    IF slot.kind = "none" THEN [exc |-> "KeyError", value |-> 0]
    ELSE IF slot.kind = "table" THEN IhtGet(slot.table, key)
    ELSE [exc |-> "none", value |-> slot.value]

\* __contains__
IhtContains(node, key) == IhtGet(node, key).exc # "KeyError"

\* __len__
IhtLen(node) == node.count

\* get_location
RECURSIVE IhtGetLocation(_, _)
IhtGetLocation(node, key) ==
    LET index == IhtHash(node, key)
        slot == node.array[index]
    IN  IF slot.kind = "none" THEN [exc |-> "KeyError", path |-> <<>>]
        ELSE IF slot.kind = "table"
             THEN LET r == IhtGetLocation(slot.table, key) IN
                  IF r.exc # "none" THEN r
                  ELSE [exc |-> "none", path |-> <<index>> \o r.path]
        ELSE IF slot.key = key THEN [exc |-> "none", path |-> <<index>>]
        ELSE [exc |-> "KeyError", path |-> <<>>]

\* existing_key[:self.level + 1]
Prefix(key, n) == IF n >= Len(key) THEN key ELSE SubSeq(key, 1, n)

\* __setitem__ on node; an exception raised below leaves node as it was.  A call
\* nested RecursionLimit deep raises RecursionError.
RECURSIVE IhtSet(_, _, _)
IhtSet(node, key, value) ==
    IF node.level >= RecursionLimit THEN [exc |-> "RecursionError", node |-> node]
    ELSE
    LET index == IhtHash(node, key)
        slot == node.array[index]
    IN  IF slot.kind = "none"
        THEN [exc |-> "none",
              node |-> [node EXCEPT !.array[index] = Leaf(key, value), !.count = @ + 1]]
        ELSE IF slot.kind = "table"
        THEN LET r == IhtSet(slot.table, key, value) IN
             IF r.exc # "none" THEN [exc |-> r.exc, node |-> node]
             ELSE [exc |-> "none",
                   node |-> [node EXCEPT !.array[index] = Child(slot.key, r.node),
                                         !.count = @ + 1]]
        ELSE LET first == IhtSet(NewNode(node.level + 1), slot.key, slot.value)
                 second == IF first.exc # "none" THEN first
                           ELSE IhtSet(first.node, key, value)
             IN  IF second.exc # "none" THEN [exc |-> second.exc, node |-> node]
                 ELSE [exc |-> "none",
                       node |-> [node EXCEPT
                                   !.array[index] =
                                       Child(Prefix(slot.key, node.level + 1), second.node),
                                   !.count = @ + 1]]

\* a variant of the collapse loop that never finds the remaining slot
FirstOccupiedMissed(array, i) == None

\* the first occupied slot of a child table (the loop of lines 106-115), None if
\* every slot is empty
RECURSIVE FirstOccupied(_, _)
FirstOccupied(array, i) ==
    IF i >= TABLE_SIZE THEN None
    ELSE IF array[i].kind # "none" THEN array[i]
    ELSE FirstOccupied(array, i + 1)

\* __delitem__ on node
RECURSIVE IhtDel(_, _)
IhtDel(node, key) ==
    LET index == IhtHash(node, key)
        slot == node.array[index]
    IN  IF slot.kind = "none" THEN [exc |-> "KeyError", node |-> node]
        ELSE IF slot.kind = "table"
        THEN LET r == IhtDel(slot.table, key) IN
             IF r.exc # "none" THEN [exc |-> r.exc, node |-> node]
             ELSE LET only == FirstOccupied(r.node.array, 0)
                      kept == IF IhtLen(r.node) = 1 /\ only.kind # "none"
                              THEN only
                              ELSE Child(slot.key, r.node)
                  IN  [exc |-> "none",
                       node |-> [node EXCEPT !.array[index] = kept, !.count = @ - 1]]
        ELSE [exc |-> "none",
              node |-> [node EXCEPT !.array[index] = None, !.count = @ - 1]]

----------------------------------------------------------------------------
(* The InfiniteHashTable as a state machine: one action per call *)

NoICall == [op |-> "init", key |-> <<>>, value |-> 0, exc |-> "none"]

\* a variant of set that leaves the count of the root as it was
ISetStaleCount(key, value) ==
    /\ LET r == IhtSet(root, key, value) IN
       /\ root' = [r.node EXCEPT !.count = root.count]
       /\ ilast' = [op |-> "set", key |-> key, value |-> value, exc |-> r.exc]
    /\ isteps' = isteps + 1
    /\ UNCHANGED <<dktVars, trailVars, other>>

ISet(key, value) ==
    /\ LET r == IhtSet(root, key, value) IN
       /\ root' = r.node
       /\ ilast' = [op |-> "set", key |-> key, value |-> value, exc |-> r.exc]
    /\ isteps' = isteps + 1
    /\ UNCHANGED <<dktVars, trailVars, other>>

IDelete(key) ==
    /\ LET r == IhtDel(root, key) IN
       /\ root' = r.node
       /\ ilast' = [op |-> "delete", key |-> key, value |-> 0, exc |-> r.exc]
    /\ isteps' = isteps + 1
    /\ UNCHANGED <<dktVars, trailVars, other>>

InitIht ==
    /\ root = NewNode(0)
    /\ ilast = NoICall
    /\ isteps = 0
    /\ InitDkt(TABLE_SIZES, TABLE_SIZES)
    /\ TrailIdle

ISetCall == isteps < MaxIhtOps /\ \E key \in IKeys, value \in Values : ISet(key, value)
IDeleteCall == isteps < MaxIhtOps /\ \E key \in IKeys : IDelete(key)

NextIht == ISetCall \/ IDeleteCall

SpecIht == InitIht /\ [][NextIht]_vars

----------------------------------------------------------------------------
(* Observations of an InfiniteHashTable used by the properties *)

\* the (key, value) leaves reachable from node
RECURSIVE IhtLeaves(_)
IhtLeaves(node) ==
    UNION { IF node.array[i].kind = "leaf"
            THEN {<<node.array[i].key, node.array[i].value>>}
            ELSE IF node.array[i].kind = "table" THEN IhtLeaves(node.array[i].table)
            ELSE {} : i \in DOMAIN node.array }

\* the keys stored in node
IhtStored(node) == {l[1] : l \in IhtLeaves(node)}

----------------------------------------------------------------------------
(* Properties of the InfiniteHashTable *)

\* C7: lookup of an absent key.  For every key k that is not stored, get(k) raises
\* KeyError and contains(k) is False.
C7_AbsentKeyLookup ==
    \A k \in IKeys :
        k \notin IhtStored(root) =>
            /\ IhtGet(root, k).exc = "KeyError"
            /\ ~IhtContains(root, k)

\* C8: deletion completeness.  After delete(k) of a stored key, contains(k) is False
\* and get(k) raises KeyError, while every other stored key still returns its own
\* value.
C8_IhtDeletionCompleteness ==
    [][(ilast'.op = "delete" /\ ilast'.key \in IhtStored(root)) =>
          /\ ilast'.exc = "none"
          /\ ~IhtContains(root', ilast'.key)
          /\ IhtGet(root', ilast'.key).exc = "KeyError"
          /\ \A l \in IhtLeaves(root) :
                 l[1] # ilast'.key
                     => IhtGet(root', l[1]) = [exc |-> "none", value |-> l[2]]]_vars

\* C9: delete of an absent key.  delete(k) for a key k that is not stored raises
\* KeyError and leaves every node's array and count as before the call.
C9_DeleteAbsentKey ==
    [][(ilast'.op = "delete" /\ ilast'.key \notin IhtStored(root)) =>
          /\ ilast'.exc = "KeyError"
          /\ root' = root]_vars

\* C10: round trip under overwrite.  set(k, v2) on a key k that is already stored
\* returns, after which get(k) returns v2, len() is the same as before the call, and
\* every other stored key keeps its value.
C10_OverwriteRoundTrip ==
    [][(ilast'.op = "set" /\ ilast'.key \in IhtStored(root)) =>
          /\ ilast'.exc = "none"
          /\ IhtGet(root', ilast'.key) = [exc |-> "none", value |-> ilast'.value]
          /\ IhtLen(root') = IhtLen(root)
          /\ \A k \in IKeys \ {ilast'.key} : IhtGet(root', k) = IhtGet(root, k)]_vars

\* the number of leaves reachable from node
RECURSIVE NumLeaves(_)
RECURSIVE SumLeaves(_, _)
SumLeaves(array, i) ==
    IF i >= TABLE_SIZE THEN 0
    ELSE (IF array[i].kind = "leaf" THEN 1
          ELSE IF array[i].kind = "table" THEN NumLeaves(array[i].table)
          ELSE 0) + SumLeaves(array, i + 1)
NumLeaves(node) == SumLeaves(node.array, 0)

\* the child tables held in the slots of node, at every depth
RECURSIVE ChildTables(_)
ChildTables(node) ==
    UNION { IF node.array[i].kind = "table"
            THEN {node.array[i].table} \cup ChildTables(node.array[i].table)
            ELSE {} : i \in DOMAIN node.array }

\* C11: count invariant.  The count of every node (the root and every child table)
\* equals the number of leaves reachable from it; len() of the root equals the
\* number of distinct keys stored.
C11_IhtCountInvariant ==
    /\ \A n \in {root} \cup ChildTables(root) : n.count = NumLeaves(n)
    /\ IhtLen(root) = Cardinality(IhtStored(root))

\* a state where C11's case happened: a child table holds leaves next to a deeper
\* child table after a delete
C11_Witness ==
    /\ ilast.op = "delete" /\ ilast.exc = "none"
    /\ \E n \in ChildTables(root) : n.count >= 2 /\ ChildTables(n) # {}

\* C12: split/collapse invariant.  Every slot that holds a child table holds one
\* with at least 2 reachable leaves; a key that is alone under its root slot is a
\* direct leaf of that slot and get_location of it has length 1.
C12_SplitCollapse ==
    /\ \A n \in ChildTables(root) : NumLeaves(n) >= 2
    /\ \A k \in IhtStored(root) :
           (\A k2 \in IhtStored(root) \ {k} : IhtHash(root, k2) # IhtHash(root, k))
               => /\ root.array[IhtHash(root, k)].kind = "leaf"
                  /\ Len(IhtGetLocation(root, k).path) = 1

\* a state where C12's case happened: a delete left a single key, which had been
\* two child tables deep, as a direct leaf of the root
C12_Witness ==
    /\ ilast.op = "delete" /\ ilast.exc = "none"
    /\ ilast.key = IKeyABD
    /\ IhtStored(root) = {IKeyABC}
    /\ IhtGetLocation(root, IKeyABC) = [exc |-> "none", path |-> <<19>>]

\* the slot reached from node by following a sequence of positions, None when the
\* sequence leaves the tables
RECURSIVE SlotAt(_, _)
SlotAt(node, path) ==
    IF path = <<>> THEN None
    ELSE LET slot == node.array[Head(path)] IN
         IF Len(path) = 1 THEN slot
         ELSE IF slot.kind = "table" THEN SlotAt(slot.table, Tail(path))
         ELSE None

\* C13: get_location agrees with get.  For every key k, get_location(k) raises
\* KeyError exactly when get(k) raises KeyError; when it succeeds, its i-th element
\* is the hash of k at level i and the last one is the slot holding the leaf of k.
C13_LocationAgreesWithGet ==
    \A k \in IKeys :
        LET loc == IhtGetLocation(root, k) IN
        /\ (loc.exc = "KeyError") <=> (IhtGet(root, k).exc = "KeyError")
        /\ loc.exc = "none" =>
               /\ \A i \in 1..Len(loc.path) : loc.path[i] = IhtHash([level |-> i - 1], k)
               /\ SlotAt(root, loc.path).kind = "leaf"
               /\ SlotAt(root, loc.path).key = k

\* C15: set terminates.  set(k, v) with a key k that differs from every stored key
\* returns: it does not end in the RecursionError of a recursion with no end.
C15_SetTerminates ==
    [][(ilast'.op = "set" /\ ilast'.key \notin IhtStored(root)) => ilast'.exc = "none"]_vars

\* C14: a failed lookup leaves no trace.  get and delete on a pair that is not
\* stored raise KeyError, contains returns False without raising, and the outer
\* array, every sub-table, the counts and the size indices stay as they were.
C14_FailedLookupNoTrace ==
    [][(/\ last'.op \in {"get", "delete", "contains"}
        /\ <<last'.key1, last'.key2>> \notin StoredPairs(Cur))
       => /\ last'.op \in {"get", "delete"} => last'.exc = "KeyError"
          /\ last'.op = "contains" => (last'.exc = "none" /\ last'.value = FALSE)
          /\ table' = table
          /\ count' = count
          /\ size_index' = size_index
          /\ sizes' = sizes
          /\ internal_sizes' = internal_sizes]_vars

\* a state where C14's case happened: a delete failed on a pair whose primary key
\* is present with another secondary key, in a table that has grown
C14_Witness ==
    /\ last.op = "delete" /\ last.exc = "KeyError"
    /\ SlotsOf(Cur, last.key1) # {}
    /\ <<last.key1, last.key2>> \notin StoredPairs(Cur)
    /\ size_index > 0

\* the number of occupied outer slots
Occupied(t) == Cardinality({x \in DOMAIN t.table : t.table[x].kind # "none"})

\* C16: delete terminates.  The outer cluster-repair loop of delete ends in every
\* reachable state, also when growth is capped and every outer slot other than
\* the one just cleared is occupied.
C16_DeleteTerminates ==
    last.op = "delete" => last.exc \in {"none", "KeyError"}

\* a state where C16's case happened: a delete returned in a table whose growth is
\* capped and whose outer slots, except one, are all occupied
C16_Witness ==
    /\ last.op = "delete" /\ last.exc = "none"
    /\ OuterExhausted(Cur)
    /\ Occupied(Cur) = ArrLen(table) - 1
    /\ \E x \in DOMAIN table :
           table[x].kind # "none" /\ hash1(table[x].key, ArrLen(table)) # x

\* a sequence that lists nothing twice
NoRepeat(seq) == \A i, j \in 1..Len(seq) : i # j => seq[i] # seq[j]

\* the occupied slots of an array hold pairwise-distinct keys
DistinctKeys(array) ==
    \A i, j \in DOMAIN array :
        (i # j /\ array[i].kind # "none" /\ array[j].kind # "none")
            => array[i].key # array[j].key

\* C20: key distinctness.  The occupied outer slots hold pairwise-distinct primary
\* keys and the occupied slots of every sub-table hold pairwise-distinct secondary
\* keys, so keys() and keys(p) list no key twice.
C20_KeyDistinctness ==
    /\ DistinctKeys(table)
    /\ \A x \in DOMAIN table : table[x].kind # "none" => DistinctKeys(table[x].sub.array)
    /\ NoRepeat(Keys(Cur))
    /\ \A k \in K1 : NoRepeat(KeysOf(Cur, k))

----------------------------------------------------------------------------
(* MountainManager (src/mountain_manager.py): a DoubleKeyTable keyed by
   (str(difficulty_level), name) *)

\* a Mountain record
Mountain(name, difficulty_level, length) ==
    [name |-> name, difficulty_level |-> difficulty_level, length |-> length]

Difficulties == {2, 7, 10}
Mountains == {Mountain(n, d, 1) : n \in {KeyA, KeyF}, d \in Difficulties}

\* str(n) of a natural number: its decimal digits as character codes
RECURSIVE Str(_)
Str(n) == IF n < 10 THEN <<48 + n>> ELSE Str(n \div 10) \o <<48 + (n % 10)>>

\* int(key) of a string of decimal digits
RECURSIVE IntOf(_)
IntOf(key) ==
    IF key = <<>> THEN 0
    ELSE 10 * IntOf(SubSeq(key, 1, Len(key) - 1)) + (key[Len(key)] - 48)

\* a <= b on strings: the order of the character codes, a prefix first
RECURSIVE StrLeq(_, _)
StrLeq(a, b) ==
    IF a = <<>> THEN TRUE
    ELSE IF b = <<>> THEN FALSE
    ELSE IF Head(a) # Head(b) THEN Head(a) < Head(b)
    ELSE StrLeq(Tail(a), Tail(b))

\* mergesort(l): the two sorted halves merged with <= on the elements
RECURSIVE Merge(_, _)
Merge(l1, l2) ==
    IF l1 = <<>> THEN l2
    ELSE IF l2 = <<>> THEN l1
    ELSE IF StrLeq(Head(l1), Head(l2)) THEN <<Head(l1)>> \o Merge(Tail(l1), l2)
    ELSE <<Head(l2)>> \o Merge(l1, Tail(l2))

RECURSIVE mergesort(_)
mergesort(l) ==
    IF Len(l) <= 1 THEN l
    ELSE LET mid == Len(l) \div 2 IN
         Merge(mergesort(SubSeq(l, 1, mid)), mergesort(SubSeq(l, mid + 1, Len(l))))

\* mountains_with_difficulty(diff): values(key) of the first key of keys() whose
\* int() is diff, [] when there is none
RECURSIVE WithDifficultyFrom(_, _, _)
WithDifficultyFrom(t, keys_list, diff) ==
    IF keys_list = <<>> THEN [exc |-> "none", list |-> <<>>]
    ELSE IF IntOf(Head(keys_list)) = diff THEN ValuesOf(t, Head(keys_list))
    ELSE WithDifficultyFrom(t, Tail(keys_list), diff)

mountains_with_difficulty(t, diff) == WithDifficultyFrom(t, Keys(t), diff)

\* group_by_difficulty(): values(key) for every key of mergesort(keys()), in order
RECURSIVE GroupFrom(_, _)
GroupFrom(t, keys_list) ==
    IF keys_list = <<>> THEN [exc |-> "none", list |-> <<>>]
    ELSE LET current_values == ValuesOf(t, Head(keys_list)) IN
         IF current_values.exc # "none" THEN [exc |-> current_values.exc, list |-> <<>>]
         ELSE LET rest == GroupFrom(t, Tail(keys_list)) IN
              IF rest.exc # "none" THEN rest
              ELSE [exc |-> "none", list |-> <<current_values.list>> \o rest.list]

group_by_difficulty(t) == GroupFrom(t, mergesort(Keys(t)))

\* add_mountain, remove_mountain and edit_mountain as calls on the table
add_mountain(t, mountain) ==
    SetItem(t, Str(mountain.difficulty_level), mountain.name, mountain)

remove_mountain(t, mountain) ==
    DelItem(t, Str(mountain.difficulty_level), mountain.name)

edit_mountain(t, old, new) ==
    LET removed == remove_mountain(t, old) IN
    IF removed.exc # "none" THEN removed ELSE add_mountain(removed, new)

ManagerCall(op, t, mountain) ==
    /\ Store(t)
    /\ last' = [op |-> op, key1 |-> Str(mountain.difficulty_level),
                key2 |-> mountain.name, value |-> mountain, exc |-> t.exc]
    /\ steps' = steps + 1
    /\ UNCHANGED <<ihtVars, trailVars, other>>

AddMountain == steps < MaxOps /\ \E m \in Mountains : ManagerCall("add", add_mountain(Cur, m), m)
RemoveMountain ==
    steps < MaxOps /\ \E m \in Mountains : ManagerCall("remove", remove_mountain(Cur, m), m)
EditMountain ==
    steps < MaxOps /\ \E old, new \in Mountains :
        ManagerCall("edit", edit_mountain(Cur, old, new), new)

\* MountainManager(): self.mountains = DoubleKeyTable()
InitManager == InitDkt(TABLE_SIZES, TABLE_SIZES) /\ IhtIdle
NextManager == AddMountain \/ RemoveMountain \/ EditMountain
SpecManager == InitManager /\ [][NextManager]_vars

\* the mountains held in the sub-tables of t
HeldMountains(t) ==
    UNION { { t.table[x].sub.array[y].value :
                y \in {y \in DOMAIN t.table[x].sub.array :
                           t.table[x].sub.array[y].kind # "none"} } :
            x \in {x \in DOMAIN t.table : t.table[x].kind # "none"} }

\* the elements of a sequence
Elems(seq) == {seq[i] : i \in 1..Len(seq)}

\* C17: mountains_with_difficulty(d) returns exactly the mountains currently held
\* whose difficulty_level is d, each once, and the empty list when there is none.
C17_MountainsWithDifficulty ==
    \A d \in Difficulties :
        LET r == mountains_with_difficulty(Cur, d) IN
        /\ r.exc = "none"
        /\ Elems(r.list) = {m \in HeldMountains(Cur) : m.difficulty_level = d}
        /\ NoRepeat(r.list)

\* C18: group_by_difficulty() returns one list for every difficulty level currently
\* held, in ascending numeric order of difficulty (2 before 10), each list holding
\* exactly the mountains of its difficulty.
C18_GroupByDifficulty ==
    LET r == group_by_difficulty(Cur)
        held == {m.difficulty_level : m \in HeldMountains(Cur)}
    IN  /\ r.exc = "none"
        /\ Len(r.list) = Cardinality(held)
        /\ \E ds \in [1..Len(r.list) -> held] :
               /\ \A i, j \in 1..Len(r.list) : i < j => ds[i] < ds[j]
               /\ \A i \in 1..Len(r.list) :
                      /\ Elems(r.list[i]) =
                             {m \in HeldMountains(Cur) : m.difficulty_level = ds[i]}
                      /\ NoRepeat(r.list[i])

----------------------------------------------------------------------------
(* Trail.collect_all_mountains (src/trail.py) *)

\* Trail.store is None, a TrailSeries or a TrailSplit; a Trail is modelled by its
\* store
TrailSeries(mountain, following) ==
    [kind |-> "series", mountain |-> mountain, following |-> following]
TrailSplit(path_top, path_bottom, path_follow) ==
    [kind |-> "split", path_top |-> path_top, path_bottom |-> path_bottom,
     path_follow |-> path_follow]

TrailMountains == {Mountain(KeyA, 2, 1), Mountain(KeyF, 7, 1)}

\* the trails made of n TrailSeries and TrailSplit objects
RECURSIVE TrailsOfSize(_)
TrailsOfSize(n) ==
    IF n = 0 THEN {None}
    ELSE {TrailSeries(m, f) : m \in TrailMountains, f \in TrailsOfSize(n - 1)}
         \cup UNION { {TrailSplit(a, b, c) : a \in TrailsOfSize(p[1]),
                                             b \in TrailsOfSize(p[2]),
                                             c \in TrailsOfSize(n - 1 - p[1] - p[2])} :
                      p \in {q \in (0..(n - 1)) \X (0..(n - 1)) : q[1] + q[2] <= n - 1} }

Trails == UNION {TrailsOfSize(n) : n \in 0..MaxTrailSize}

\* the while loop of collect_all_mountains: mystack is a LinkedStack, its top the
\* head of the sequence.  Reading .mountain of a TrailSplit raises AttributeError.
RECURSIVE CollectLoop(_, _)
CollectLoop(mystack, mountain_list) ==
    IF mystack = <<>> THEN [exc |-> "none", list |-> mountain_list]
    ELSE LET current_trail == Head(mystack)
             popped == Tail(mystack)
         IN  IF current_trail.kind = "split"
             THEN IF current_trail.path_follow.kind = "split"
                  THEN [exc |-> "AttributeError", list |-> <<>>]
                  ELSE CollectLoop(
                           <<current_trail.path_bottom, current_trail.path_top>> \o popped,
                           IF current_trail.path_follow.kind = "series"
                           THEN Append(mountain_list, current_trail.path_follow.mountain)
                           ELSE mountain_list)
             ELSE IF current_trail.kind = "series"
             THEN CollectLoop(<<current_trail.following>> \o popped,
                              Append(mountain_list, current_trail.mountain))
             ELSE CollectLoop(popped, mountain_list)

collect_all_mountains(store) == CollectLoop(<<store>>, <<>>)

\* the mountains of a trail, each as often as the trail holds it
RECURSIVE MountainsOf(_)
MountainsOf(store) ==
    IF store.kind = "series"
    THEN SetToBag({store.mountain}) (+) MountainsOf(store.following)
    ELSE IF store.kind = "split"
    THEN MountainsOf(store.path_top) (+) MountainsOf(store.path_bottom)
             (+) MountainsOf(store.path_follow)
    ELSE EmptyBag

\* a call of collect_all_mountains on the trail
CollectAllMountains ==
    /\ collected = NotCollected
    /\ collected' = collect_all_mountains(trail)
    /\ UNCHANGED <<trail, dktVars, ihtVars, other>>

InitTrail ==
    /\ trail \in Trails
    /\ collected = NotCollected
    /\ InitDkt(TABLE_SIZES, TABLE_SIZES)
    /\ root = None /\ ilast = None /\ isteps = 0
NextTrail == CollectAllMountains
SpecTrail == InitTrail /\ [][NextTrail]_vars

\* C19: collect_all_mountains returns every mountain of the trail exactly once:
\* those of both branches of every split and all of those of its path_follow,
\* also when path_follow starts with a split or is empty.
C19_CollectAllMountains ==
    collected # NotCollected =>
        /\ collected.exc = "none"
        /\ BagOfSeq(collected.list) = MountainsOf(trail)

----------------------------------------------------------------------------
(* Further properties of the DoubleKeyTable *)

\* the occupied slots of an array
OccupiedSlots(array) == {y \in DOMAIN array : array[y].kind # "none"}

\* the count of every sub-table of t is the number of occupied slots of its array
SubCountsOk(t) ==
    \A x \in OccupiedSlots(t.table) :
        t.table[x].sub.count = Cardinality(OccupiedSlots(t.table[x].sub.array))

\* the counts, size indices and capacities of t and u are the same, slot by slot
SameShape(t, u) ==
    /\ t.count = u.count
    /\ t.size_index = u.size_index
    /\ DOMAIN t.table = DOMAIN u.table
    /\ \A x \in DOMAIN t.table :
           /\ t.table[x].kind = u.table[x].kind
           /\ t.table[x].kind # "none" =>
                  /\ t.table[x].key = u.table[x].key
                  /\ t.table[x].sub.count = u.table[x].sub.count
                  /\ t.table[x].sub.size_index = u.table[x].sub.size_index
                  /\ DOMAIN t.table[x].sub.array = DOMAIN u.table[x].sub.array

\* C21: sub-table count invariant.  After every call the count of every sub-table
\* equals the number of occupied slots of its array; a set on a pair that is
\* already stored changes no count and triggers no growth.
C21_SubTableCount ==
    [][/\ SubCountsOk(Cur')
       /\ (last'.op = "set" /\ Get(Cur, last'.key1, last'.key2).exc = "none")
              => (last'.exc = "none" /\ SameShape(Cur, Cur'))]_vars

\* C22: delete frame.  A delete of (p, s) that returns while the sub-table of p
\* holds more than one entry leaves the outer structure as it was: the primary key
\* of every outer slot, the outer count, the outer size_index, and the array and
\* count of every sub-table other than that of p.
C22_DeleteFrame ==
    [][(/\ last'.op = "delete" /\ last'.exc = "none"
        /\ \A x \in SlotsOf(Cur, last'.key1) :
               Cardinality(OccupiedSlots(table[x].sub.array)) > 1)
       => /\ count' = count
          /\ size_index' = size_index
          /\ DOMAIN table' = DOMAIN table
          /\ \A x \in DOMAIN table :
                 /\ table'[x].kind = table[x].kind
                 /\ table[x].kind # "none" => table'[x].key = table[x].key
                 /\ (table[x].kind # "none" /\ table[x].key # last'.key1)
                        => table'[x] = table[x]]_vars

\* a state where C22's case happened: a delete returned, its primary key is still
\* held, and another primary key sits away from its home slot
C22_Witness ==
    /\ last.op = "delete" /\ last.exc = "none"
    /\ SlotsOf(Cur, last.key1) # {}
    /\ \E x \in OccupiedSlots(table) :
           table[x].key # last.key1 /\ hash1(table[x].key, ArrLen(table)) # x

\* at most half of the slots of an array are occupied
AtMostHalf(array) == 2 * Cardinality(OccupiedSlots(array)) <= ArrLen(array)

\* C23: load invariant.  With the built-in capacity sequences, neither of them
\* exhausted, after every set that returns at most half of the outer slots are
\* occupied and at most half of the slots of every sub-table are occupied.
C23_LoadInvariant ==
    (/\ last.op = "set" /\ last.exc = "none"
     /\ sizes = TABLE_SIZES /\ internal_sizes = TABLE_SIZES
     /\ ~OuterExhausted(Cur) /\ SubExhausted(Cur) = {})
    => /\ AtMostHalf(table)
       /\ \A x \in OccupiedSlots(table) : AtMostHalf(table[x].sub.array)

\* a state where C23's case happened: a set returned after the outer array and a
\* sub-table have both grown, the sub-table holding three entries
C23_Witness ==
    /\ last.op = "set" /\ last.exc = "none"
    /\ size_index > 0
    /\ \E x \in OccupiedSlots(table) :
           /\ table[x].sub.size_index > 0
           /\ Cardinality(OccupiedSlots(table[x].sub.array)) = 3

----------------------------------------------------------------------------
(* Further properties of the InfiniteHashTable *)

\* the slots holding a child table, at every depth below node, each with the level
\* of the node that holds it
RECURSIVE ChildSlots(_)
ChildSlots(node) ==
    UNION { IF node.array[i].kind = "table"
            THEN {[level |-> node.level, slot |-> node.array[i]]}
                     \cup ChildSlots(node.array[i].table)
            ELSE {} : i \in DOMAIN node.array }

\* C24: prefix invariant.  For every slot at level L that holds a child table, all
\* keys reachable through the slot have the same first L + 1 characters, and these
\* are the partial key stored in the slot.
C24_PrefixInvariant ==
    \A c \in ChildSlots(root) :
        \A k \in IhtStored(c.slot.table) : Prefix(k, c.level + 1) = c.slot.key

\* C25: no empty sub-table is kept.  After every set or delete that returns, every
\* occupied outer slot holds a sub-table with at least one entry; a delete of the
\* last secondary key under a primary key p removes p from keys(), and a set under
\* a primary key that is not held creates a fresh sub-table with that one entry.
C25_NoEmptySubTable ==
    [][(last'.op \in {"set", "delete"} /\ last'.exc = "none")
       => /\ \A x \in OccupiedSlots(table') : OccupiedSlots(table'[x].sub.array) # {}
          /\ (/\ last'.op = "delete"
              /\ \A x \in SlotsOf(Cur, last'.key1) :
                     Cardinality(OccupiedSlots(table[x].sub.array)) = 1)
                 => last'.key1 \notin Elems(Keys(Cur'))
          /\ (last'.op = "set" /\ SlotsOf(Cur, last'.key1) = {})
                 => \E x \in DOMAIN table' :
                        /\ SlotsOf(Cur', last'.key1) = {x}
                        /\ table'[x].sub.count = 1
                        /\ table'[x].sub.size_index = 0
                        /\ LptKeys(table'[x].sub) = <<last'.key2>>
                        /\ LptValues(table'[x].sub) = <<last'.value>>]_vars

\* a state where C25's case happened: a delete of the last secondary key under a
\* primary key returned, the key is gone from keys(), and another primary key is
\* held with two entries
C25_Witness ==
    /\ last.op = "delete" /\ last.exc = "none"
    /\ last.key1 \notin Elems(Keys(Cur))
    /\ \E x \in OccupiedSlots(table) :
           Cardinality(OccupiedSlots(table[x].sub.array)) = 2

----------------------------------------------------------------------------
(* Two DoubleKeyTables: the first one built without arguments, the second one
   built later with or without the arguments sizes and internal_sizes *)

\* an optional argument of __init__: None, or a list
NoArg == [given |-> FALSE]
Arg(list) == [given |-> TRUE, list |-> list]

\* DoubleKeyTable(sizes, internal_sizes) for the second table: sizes is kept in the
\* new object (line 42), internal_sizes is assigned to LinearProbeTable.TABLE_SIZES,
\* the attribute of the class (line 44)
ConstructOther(sizesArg, internalSizesArg) ==
    /\ LET own == IF sizesArg.given THEN sizesArg.list ELSE TABLE_SIZES IN
       other' = [sizes |-> own, size_index |-> 0, table |-> EmptyArray(own[1]),
                 count |-> 0]
    /\ internal_sizes' = IF internalSizesArg.given THEN internalSizesArg.list
                         ELSE internal_sizes
    /\ last' = [op |-> "construct", key1 |-> <<>>, key2 |-> <<>>, value |-> 0,
                exc |-> "none"]
    /\ steps' = steps + 1
    /\ UNCHANGED <<table, size_index, count, sizes, ihtVars, trailVars>>

ConstructCall ==
    steps < MaxOps /\ \E s \in {NoArg, Arg(<<5>>)}, i \in {NoArg, Arg(<<3>>), Arg(<<5>>)} :
        ConstructOther(s, i)

NextTwo == SetCall \/ DeleteCall \/ ConstructCall
SpecTwo == Init /\ [][NextTwo]_vars

\* C26: configuration isolation.  The capacity sequences of a table built without
\* an override stay the built-in ones whatever other table is built: its outer
\* array and every one of its sub-tables have the capacity the built-in sequence
\* gives at their size_index.
C26_ConfigurationIsolation ==
    /\ sizes = TABLE_SIZES
    /\ ArrLen(table) = TABLE_SIZES[size_index + 1]
    /\ \A x \in OccupiedSlots(table) :
           ArrLen(table[x].sub.array) = TABLE_SIZES[table[x].sub.size_index + 1]

====
